---- MODULE Spec2Model ----
(***************************************************************************)
(* Round controller of the rock-paper-scissors arena (src/src/App.tsx).    *)
(*                                                                         *)
(* The state is the React state of App (playerChoice, computerChoice,      *)
(* result, score, isAnimating) plus the browser's queue of pending         *)
(* setTimeout callbacks, each holding the `choice` its closure captured.   *)
(* Every step is one browser task: a click on a rendered choice shape, a   *)
(* click on PLAY AGAIN, or the expiry of a reveal timer.  A task runs one  *)
(* handler to completion and React re-renders before the next task, so a   *)
(* handler always reads the state its render closed over.                  *)
(***************************************************************************)
EXTENDS Integers, Sequences, FiniteSets

VARIABLES playerChoice, computerChoice, result, score, isAnimating, timers

vars == <<playerChoice, computerChoice, result, score, isAnimating, timers>>

\* Number of rounds after which no further selection is explored.
MaxRounds == 4

\* null of `Choice` and `Result`
None == "none"

\* const CHOICES: Choice[] = ['rock', 'paper', 'scissors']
CHOICES == <<"rock", "paper", "scissors">>

\* type Choice = 'rock' | 'paper' | 'scissors' | null
Choice == {"rock", "paper", "scissors", None}

\* type Result = 'win' | 'lose' | 'draw' | null
Result == {"win", "lose", "draw", None}

\* Values Math.floor(Math.random() * 3) can take.
RandomIndex == 0 .. 2

getResultBeatsReversed(player, computer) ==
    IF player = None \/ computer = None THEN None
    ELSE IF player = computer THEN "draw"
    ELSE IF \/ (player = "scissors" /\ computer = "rock")
            \/ (player = "rock" /\ computer = "paper")
            \/ (player = "paper" /\ computer = "scissors")
         THEN "win"
    ELSE "lose"

\* function getResult(player, computer)
getResult(player, computer) ==
    IF player = None \/ computer = None THEN None
    ELSE IF player = computer THEN "draw"
    ELSE IF \/ (player = "rock" /\ computer = "scissors")
            \/ (player = "paper" /\ computer = "rock")
            \/ (player = "scissors" /\ computer = "paper")
         THEN "win"
    ELSE "lose"

updateScoreWinOnly(s, gameResult) ==
    IF gameResult = "win" THEN [s EXCEPT !.wins = @ + 1]
    ELSE [s EXCEPT !.draws = @ + 1]

\* The three setScore branches of the reveal callback.
updateScore(s, gameResult) ==
    IF gameResult = "win" THEN [s EXCEPT !.wins = @ + 1]
    ELSE IF gameResult = "lose" THEN [s EXCEPT !.losses = @ + 1]
    ELSE [s EXCEPT !.draws = @ + 1]

\* Rounds completed so far.
Played == score.wins + score.losses + score.draws

ShapesRenderedAlways == TRUE

\* Scene renders the three clickable shapes only under {!playerChoice && ...}
ShapesRendered == playerChoice = None

PlayAgainVisibleOnChoice == playerChoice # None

\* App renders the PLAY AGAIN button only under {result && ...}
PlayAgainVisible == result # None

Init ==
    /\ playerChoice = None
    /\ computerChoice = None
    /\ result = None
    /\ score = [wins |-> 0, losses |-> 0, draws |-> 0]
    /\ isAnimating = FALSE
    /\ timers = <<>>

handleChoiceNoTimer(choice) ==
    IF isAnimating \/ choice = None
    THEN UNCHANGED vars
    ELSE /\ isAnimating' = TRUE
         /\ playerChoice' = choice
         /\ UNCHANGED <<computerChoice, result, score, timers>>

\* const handleChoice = (choice) => { ... setTimeout(..., 800) }
handleChoice(choice) ==
    IF isAnimating \/ choice = None
    THEN UNCHANGED vars
    ELSE /\ isAnimating' = TRUE
         /\ playerChoice' = choice
         /\ timers' = Append(timers, [choice |-> choice])
         /\ UNCHANGED <<computerChoice, result, score>>

revealCallbackKeepsAnimating(choice, r) ==
    LET compChoice == CHOICES[r + 1]
        gameResult == getResult(choice, compChoice)
    IN  /\ computerChoice' = compChoice
        /\ result' = gameResult
        /\ score' = updateScore(score, gameResult)
        /\ UNCHANGED isAnimating

\* The arrow function handed to setTimeout; `choice` is the captured argument
\* of handleChoice and r the random index.
revealCallback(choice, r) ==
    LET compChoice == CHOICES[r + 1]
        gameResult == getResult(choice, compChoice)
    IN  /\ computerChoice' = compChoice
        /\ result' = gameResult
        /\ score' = updateScore(score, gameResult)
        /\ isAnimating' = FALSE

resetGameKeepsOpponent ==
    /\ playerChoice' = None
    /\ result' = None
    /\ UNCHANGED <<computerChoice, score, isAnimating, timers>>

\* const resetGame = () => { ... }
resetGame ==
    /\ playerChoice' = None
    /\ computerChoice' = None
    /\ result' = None
    /\ UNCHANGED <<score, isAnimating, timers>>

\* A click on one of the three shapes Scene renders: onClick={() => onChoice(c)}
ClickChoice ==
    /\ ShapesRendered
    /\ Played + Len(timers) < MaxRounds
    /\ \E i \in 1 .. 3 : handleChoice(CHOICES[i])

\* The 800 ms timer that was set first expires and its callback runs.
TimerFire ==
    /\ timers # <<>>
    /\ \E r \in RandomIndex : revealCallback(Head(timers).choice, r)
    /\ timers' = Tail(timers)
    /\ UNCHANGED playerChoice

\* A click on the PLAY AGAIN button: onClick={resetGame}
ClickPlayAgain ==
    /\ PlayAgainVisible
    /\ resetGame

Next ==
    \/ ClickChoice
    \/ TimerFire
    \/ ClickPlayAgain

Spec == Init /\ [][Next]_vars

\* The browser runs the callback of every timer that is due.
FairSpec == Spec /\ WF_vars(TimerFire)

----------------------------------------------------------------------------
\* The three states of the round lifecycle, read off the stored fields.

Idle ==
    /\ playerChoice = None
    /\ computerChoice = None
    /\ result = None
    /\ ~isAnimating
    /\ timers = <<>>

AwaitingReveal ==
    /\ playerChoice # None
    /\ result = None

Resolved == result # None

TypeOK ==
    /\ playerChoice \in Choice
    /\ computerChoice \in Choice
    /\ result \in Result
    /\ score \in [wins : Nat, losses : Nat, draws : Nat]
    /\ isAnimating \in BOOLEAN
    /\ timers \in Seq([choice : Choice \ {None}])

\* A step that starts a reveal timer, i.e. a selection that was accepted.
TimerStarted == Len(timers') > Len(timers)

\* A step in which a reveal timer expired and ran its callback.
TimerFired == Len(timers') < Len(timers)

\* A step of the reset action: the stored player choice is cleared.
ResetTaken == playerChoice # None /\ playerChoice' = None

----------------------------------------------------------------------------
ReferenceTable ==
    [p \in Choice \X Choice |->
        IF p[1] = None \/ p[2] = None THEN None
        ELSE IF p \in {<<"rock", "rock">>, <<"paper", "paper">>,
                       <<"scissors", "scissors">>} THEN "draw"
        ELSE IF p \in {<<"rock", "scissors">>, <<"paper", "rock">>,
                       <<"scissors", "paper">>} THEN "win"
        ELSE IF p \in {<<"scissors", "rock">>, <<"rock", "paper">>,
                       <<"paper", "scissors">>} THEN "lose"
        ELSE "undefined"]

\* C2: getResult agrees with the reference table on all sixteen pairs of
\* {rock, paper, scissors, none}, and the result a round stores is the
\* table's entry for the stored pair.
GetResultMatchesTable ==
    /\ \A a \in Choice : \A b \in Choice :
            getResult(a, b) = ReferenceTable[<<a, b>>]
    /\ Resolved => result = ReferenceTable[<<playerChoice, computerChoice>>]

\* A round in which rock met scissors has been resolved as a win.
GetResultMatchesTableWitness ==
    /\ playerChoice = "rock"
    /\ computerChoice = "scissors"
    /\ result = "win"

\* C3: each firing of the reveal timer increases exactly one of wins, losses,
\* draws by exactly 1, leaves the other two alone, and the one increased is
\* the one named by the result stored in that step.
RevealCountsOnce ==
    [][ TimerFired =>
            \/ /\ result' = "win"
               /\ score' = [score EXCEPT !.wins = @ + 1]
            \/ /\ result' = "lose"
               /\ score' = [score EXCEPT !.losses = @ + 1]
            \/ /\ result' = "draw"
               /\ score' = [score EXCEPT !.draws = @ + 1]
      ]_vars

\* Rounds of all three outcomes have been counted.
RevealCountsOnceWitness ==
    /\ Resolved
    /\ score.wins >= 1
    /\ score.losses >= 1
    /\ score.draws >= 1

\* C4: the reset action is taken in Resolved, leads to Idle with player
\* choice, opponent choice and result all none, and leaves the score alone.
ResetClearsRoundKeepsScore ==
    [][ ResetTaken =>
            /\ Resolved
            /\ Idle'
            /\ score' = score
      ]_vars

\* Idle again after at least one counted round, i.e. after a reset.
ResetClearsRoundKeepsScoreWitness ==
    /\ Idle
    /\ Played >= 1

\* C5: result is non-none iff both choices are non-none.
ResultIffBothChoices ==
    result # None <=> (playerChoice # None /\ computerChoice # None)

\* Both directions occur: a resolved round, seen after an earlier reset.
ResultIffBothChoicesWitness ==
    /\ result # None
    /\ playerChoice # None
    /\ computerChoice # None
    /\ Played >= 2

RevealEventuallyResolves ==
    \A n \in 0 .. MaxRounds :
        (AwaitingReveal /\ Played = n) ~>
            /\ Resolved
            /\ computerChoice \in {"rock", "paper", "scissors"}
            /\ result \in {"win", "lose", "draw"}
            /\ Played = n + 1

\* The last explored round has been resolved.
RevealEventuallyResolvesWitness ==
    /\ Resolved
    /\ timers = <<>>
    /\ Played = MaxRounds

\* C10: isAnimating is true exactly in AwaitingReveal (player choice set,
\* no result); with no player choice the flag is false, opponent choice and
\* result are none and no reveal timer is pending.
FlagsEncodeRoundState ==
    /\ isAnimating <=> (playerChoice # None /\ result = None)
    /\ playerChoice = None =>
          /\ ~isAnimating
          /\ computerChoice = None
          /\ result = None
          /\ timers = <<>>

\* All three states have been passed through: a round is resolved (flag
\* false again) after an earlier round was reset.
FlagsEncodeRoundStateWitness ==
    /\ ~isAnimating
    /\ playerChoice = "paper"
    /\ result = "draw"
    /\ Played >= 2

====
